---- MODULE Spec2Model ----
(***************************************************************************)
(* Model of the Lucid API gateway (src/server.js): the per-client rate     *)
(* limiter in front of POST /api/search and POST /api/chat, the two        *)
(* handlers, the upstream calls they make, and the normalisation of the    *)
(* search completion into the product list.                                *)
(*                                                                         *)
(* JavaScript values are records [t, n, s]: t is the type tag, n the       *)
(* number (or the length of an opaque list), s the string.  Error messages *)
(* are sequences of words, so that String.includes is a membership test.   *)
(***************************************************************************)
EXTENDS Integers, Sequences, FiniteSets, TLC

VARIABLES
    DEEPSEEK_API_KEY,   \* TRUE iff process.env.DEEPSEEK_API_KEY is set
    OPENAI_API_KEY,     \* TRUE iff process.env.OPENAI_API_KEY is set
    now,                \* the clock, in ticks
    storage,            \* the RateLimiterMemory records, one per key
    req,                \* the request being served
    res,                \* its response object
    upstream,           \* the axios call of the request
    window              \* per client: the rate window its requests fall in

vars == <<DEEPSEEK_API_KEY, OPENAI_API_KEY, now, storage, req, res, upstream, window>>

----------------------------------------------------------------------------
(* Bounds of the model *)

MaxTime == 3            \* the clock stops here
TicksPerSecond == 2     \* granularity of the clock
MaxOverflow == 1        \* requests a client sends beyond the capacity of a window
MaxList == 1            \* longest upstream product list of the normaliser's inputs

(* Program constants *)

points == 10            \* rateLimiter points
duration == 1           \* rateLimiter duration, seconds
SearchTimeoutMs == 15000
NoTimeout == 0          \* axios default: timeout 0 never fires

Clients == {"10.0.0.1", "10.0.0.2"}

----------------------------------------------------------------------------
(* JavaScript values *)

Undefined == [t |-> "undefined", n |-> 0, s |-> ""]
Num(k) == [t |-> "number", n |-> k, s |-> ""]
Str(x) == [t |-> "string", n |-> 0, s |-> x]
List(k) == [t |-> "array", n |-> k, s |-> ""]

\* ToBoolean
Truthy(v) ==
    CASE v.t = "undefined" -> FALSE
      [] v.t = "null" -> FALSE
      [] v.t = "number" -> v.n # 0
      [] v.t = "string" -> v.s # ""
      [] OTHER -> TRUE

\* a || b
Or(a, b) == IF Truthy(a) THEN a ELSE b

\* String.prototype.includes on a message, word by word
Includes(message, word) == \E i \in 1..Len(message) : message[i] = word

----------------------------------------------------------------------------
(* Upstream product lists *)

FieldNames == {"name", "image_url", "rating", "review_count", "pros", "cons",
               "price_min", "price_max", "retailers"}

NoFields == [f \in FieldNames |-> Undefined]

\* An element of a product list: an object with its fields, or null.
Obj(fields) == [t |-> "object", f |-> fields]
NullElem == [t |-> "null", f |-> NoFields]

\* The value of `products` / `recommendations`: a list, or something else.
PList(l) == [t |-> "array", l |-> l]
POther(tag) == [t |-> tag, l |-> <<>>]

PTruthy(p) == p.t \in {"array", "string", "object"}

\* JSON.parse result
ParsedKeys == {"name", "title", "pros", "cons", "price_min", "minPrice",
               "price_max", "maxPrice", "rating", "reviewCount"}

NoKeys == [k \in ParsedKeys |-> Undefined]

Parsed(tag, products, recommendations, keys) ==
    [t |-> tag, products |-> products, recommendations |-> recommendations, k |-> keys]

\* A primitive, null or an array at top level has none of the keys.
ParsedPrimitive(tag) == Parsed(tag, POther("undefined"), POther("undefined"), NoKeys)

\* response.data of a 2xx answer
Data(shape, valid, parsed) == [shape |-> shape, valid |-> valid, parsed |-> parsed]
NoData == Data("none", FALSE, ParsedPrimitive("null"))

\* Errors: axios errors and the exceptions of the handler's own code
Err(kind, code, message, status, dataMessage) ==
    [kind |-> kind, code |-> code, message |-> message, status |-> status,
     dataMessage |-> dataMessage]
NoErr == Err("none", "", <<>>, 0, FALSE)
TypeError(message) == Err("TypeError", "", message, 0, FALSE)
SyntaxError == Err("SyntaxError", "", <<"Unexpected", "token">>, 0, FALSE)

----------------------------------------------------------------------------
(* The rate limiter: RateLimiterMemory({points: 10, duration: 1}) *)

DurationTicks == duration * TicksPerSecond

NoRecord == [value |-> 0, expiresAt |-> 0]

\* Consume with the capacity test off by one (>= for >).
ConsumeOffByOne(st, key, t) ==
    LET rec == st[key]
        live == rec.value > 0 /\ rec.expiresAt > t
        next == IF live
                THEN [rec EXCEPT !.value = @ + 1]
                ELSE [value |-> 1, expiresAt |-> t + DurationTicks]
    IN [storage |-> [st EXCEPT ![key] = next], rejected |-> next.value >= points]

\* rateLimiter.consume(key) at time t, as rate-limiter-flexible does it: the
\* record of the key is incremented while it has not expired and starts again
\* at 1 otherwise; the promise is rejected when the incremented value exceeds
\* points.  A rejected call increments too.
Consume(st, key, t) ==
    LET rec == st[key]
        live == rec.value > 0 /\ rec.expiresAt > t
        next == IF live
                THEN [rec EXCEPT !.value = @ + 1]
                ELSE [value |-> 1, expiresAt |-> t + DurationTicks]
    IN [storage |-> [st EXCEPT ![key] = next], rejected |-> next.value > points]

\* The record's timer deletes it when the duration has passed.
Expire(st, t) ==
    [c \in Clients |-> IF st[c].value > 0 /\ st[c].expiresAt <= t THEN NoRecord ELSE st[c]]

----------------------------------------------------------------------------
(* The response object *)

NoResponse ==
    [sent |-> 0, status |-> 0, body |-> "none", error |-> FALSE, message |-> <<>>,
     products |-> <<>>]

\* res.status(status).json({error: true, message}).  A response already sent
\* stays as it is; the further send is counted.
SendError(r, status, message) ==
    IF r.sent = 0
    THEN [sent |-> 1, status |-> status, body |-> "error", error |-> TRUE,
          message |-> message, products |-> <<>>]
    ELSE [r EXCEPT !.sent = @ + 1]

\* res.json({products: formattedResults})
SendProducts(r, list) ==
    IF r.sent = 0
    THEN [sent |-> 1, status |-> 200, body |-> "products", error |-> FALSE,
          message |-> <<>>, products |-> list]
    ELSE [r EXCEPT !.sent = @ + 1]

\* res.json({reply})
SendReply(r) ==
    IF r.sent = 0
    THEN [sent |-> 1, status |-> 200, body |-> "reply", error |-> FALSE,
          message |-> <<>>, products |-> <<>>]
    ELSE [r EXCEPT !.sent = @ + 1]

TooManyRequests == <<"Too", "many", "requests,", "please", "try", "again", "later.">>
QueryRequired == <<"Search", "query", "is", "required">>
MissingApiKey == <<"API", "configuration", "error:", "Missing", "API", "key">>
CannotConnect == <<"Cannot", "connect", "to", "search", "service.">>
ConnectionTimedOut == <<"Search", "service", "connection", "timed", "out.">>
AuthenticationError == <<"Authentication", "error", "with", "search", "service.">>
EndpointNotFound == <<"Search", "service", "endpoint", "not", "found.">>
RequestTimedOut == <<"Search", "request", "timed", "out.">>
FailedToSearch == <<"Failed", "to", "search", "products">>
UpstreamMessage == <<"upstream", "message">>
InternalServerError == <<"Internal", "server", "error", "processing", "search", "request.">>
MessagesRequired == <<"Messages", "are", "required", "and", "must", "be", "an", "array">>
FailedToGetReply == <<"Failed", "to", "get", "AI", "response">>

\* rateLimiterMiddleware consuming under one key for every client.
rateLimiterMiddlewareSharedKey(st, ip, t, r) ==
    LET c == Consume(st, "10.0.0.1", t)
    IN [storage |-> c.storage,
        next |-> ~c.rejected,
        res |-> IF c.rejected THEN SendError(r, 429, TooManyRequests) ELSE r]

\* rateLimiterMiddleware: consume a point of req.ip, then next(), or 429.
rateLimiterMiddleware(st, ip, t, r) ==
    LET c == Consume(st, ip, t)
    IN [storage |-> c.storage,
        next |-> ~c.rejected,
        res |-> IF c.rejected THEN SendError(r, 429, TooManyRequests) ELSE r]

----------------------------------------------------------------------------
(* POST /api/search: the normaliser *)

Thrown(e) == [threw |-> TRUE, err |-> e, products |-> POther("undefined")]
Returned(p) == [threw |-> FALSE, err |-> NoErr, products |-> p]

CannotReadProperties == <<"Cannot", "read", "properties", "of", "undefined">>
CannotReadNull == <<"Cannot", "read", "properties", "of", "null">>
MapIsNotAFunction == <<"products.map", "is", "not", "a", "function">>

\* response.data.choices[0].message.content throws a TypeError when a link of
\* the chain is missing.
ContentThrows(data) == data.shape \in {"noChoices", "noMessage"}

\* The product built from the parsed object itself ("Construct from raw").
RawProduct(k, query) ==
    Obj([NoFields EXCEPT
         !.name = Or(Or(k.name, k.title), query),
         !.pros = Or(k.pros, Str("")),
         !.cons = Or(k.cons, Str("")),
         !.price_min = Or(Or(k.price_min, k.minPrice), Num(0)),
         !.price_max = Or(Or(k.price_max, k.maxPrice), Num(0)),
         !.rating = Or(k.rating, Num(0)),
         !.review_count = Or(k.reviewCount, Num(0))])

\* The single generic product of the parsingError catch.
GenericProduct(query) ==
    Obj([NoFields EXCEPT
         !.name = Str(query.s),
         !.pros = Str("Information not available"),
         !.cons = Str("Information not available"),
         !.price_min = Num(0),
         !.price_max = Num(0),
         !.rating = Num(0),
         !.review_count = Num(0)])

\* The body of the try: read the completion, JSON.parse it, select the list.
SelectProducts(data, query) ==
    IF ContentThrows(data) THEN Thrown(TypeError(CannotReadProperties))
    ELSE IF data.shape = "noContent" \/ ~data.valid THEN Thrown(SyntaxError)
    ELSE IF data.parsed.t = "null" THEN Thrown(TypeError(CannotReadNull))
    ELSE IF PTruthy(data.parsed.products) THEN Returned(data.parsed.products)
    ELSE IF PTruthy(data.parsed.recommendations) THEN Returned(data.parsed.recommendations)
    ELSE Returned(PList(<<RawProduct(data.parsed.k, query)>>))

\* The parsingError catch: it logs response.data.choices[0].message.content,
\* which throws again when the chain is broken, and then builds the generic
\* product.
ParsingErrorCatch(data, query) ==
    IF ContentThrows(data) THEN Thrown(TypeError(CannotReadProperties))
    ELSE Returned(PList(<<GenericProduct(query)>>))

\* let products = []; try { ... } catch (parsingError) { ... }
ParseCompletion(data, query) ==
    LET t == SelectProducts(data, query)
    IN IF t.threw THEN ParsingErrorCatch(data, query) ELSE t

Placeholder == Str("https://via.placeholder.com/300")
NoInformation == Str("No information available")

\* product => ({productName: product.name, ...})
FormatProduct(product) ==
    [productName |-> product.f.name,
     productImageUrl |-> Or(product.f.image_url, Placeholder),
     averageRating |-> Or(product.f.rating, Num(0)),
     reviewCount |-> Or(product.f.review_count, Num(0)),
     pros |-> Or(product.f.pros, NoInformation),
     cons |-> Or(product.f.cons, NoInformation),
     priceMin |-> Or(product.f.price_min, Num(0)),
     priceMax |-> Or(product.f.price_max, Num(0)),
     retailers |-> Or(product.f.retailers, List(0))]

\* products.map(...): a TypeError when products is no array or an element is
\* null.
FormatResults(products) ==
    IF products.t # "array"
    THEN [threw |-> TRUE, err |-> TypeError(MapIsNotAFunction), out |-> <<>>]
    ELSE IF \E i \in 1..Len(products.l) : products.l[i].t = "null"
    THEN [threw |-> TRUE, err |-> TypeError(CannotReadNull), out |-> <<>>]
    ELSE [threw |-> FALSE, err |-> NoErr,
          out |-> [i \in 1..Len(products.l) |-> FormatProduct(products.l[i])]]

----------------------------------------------------------------------------
(* POST /api/search: the error handlers *)

\* NetworkErrorCatch with the return of the 503 branch missing: the response
\* is sent and the error thrown on.
NetworkErrorCatchFallsThrough(e, r) ==
    IF e.code \in {"ECONNREFUSED", "ENOTFOUND"}
       \/ Includes(e.message, "connect") \/ Includes(e.message, "network")
    THEN [returned |-> FALSE, res |-> SendError(r, 503, CannotConnect)]
    ELSE IF e.code \in {"ETIMEDOUT", "ESOCKETTIMEDOUT"}
    THEN [returned |-> TRUE, res |-> SendError(r, 504, ConnectionTimedOut)]
    ELSE [returned |-> FALSE, res |-> r]

\* catch (networkError): 503, 504, or the error thrown on.
NetworkErrorCatch(e, r) ==
    IF e.code \in {"ECONNREFUSED", "ENOTFOUND"}
       \/ Includes(e.message, "connect") \/ Includes(e.message, "network")
    THEN [returned |-> TRUE, res |-> SendError(r, 503, CannotConnect)]
    ELSE IF e.code \in {"ETIMEDOUT", "ESOCKETTIMEDOUT"}
    THEN [returned |-> TRUE, res |-> SendError(r, 504, ConnectionTimedOut)]
    ELSE [returned |-> FALSE, res |-> r]

\* catch (apiError): the status and the message of the error response.
ApiErrorCatch(e, r) ==
    LET statusCode == IF e.status # 0 THEN e.status ELSE 500
        errorMessage == IF e.dataMessage THEN UpstreamMessage
                        ELSE IF e.message # <<>> THEN e.message
                        ELSE FailedToSearch
    IN IF e.status \in {401, 403} THEN SendError(r, statusCode, AuthenticationError)
       ELSE IF e.status = 404 THEN SendError(r, statusCode, EndpointNotFound)
       ELSE IF e.code = "ECONNABORTED" THEN SendError(r, 504, RequestTimedOut)
       ELSE SendError(r, statusCode, errorMessage)

\* SearchStart testing query === undefined for !query.
SearchStartUndefinedOnly(query, key, r) ==
    IF query = Undefined
    THEN [res |-> SendError(r, 400, QueryRequired), validated |-> FALSE, call |-> FALSE]
    ELSE IF ~key
    THEN [res |-> SendError(r, 500, MissingApiKey), validated |-> TRUE, call |-> FALSE]
    ELSE [res |-> r, validated |-> TRUE, call |-> TRUE]

\* SearchStart without the test of the query.
SearchStartUnvalidated(query, key, r) ==
    IF ~key
    THEN [res |-> SendError(r, 500, MissingApiKey), validated |-> FALSE, call |-> FALSE]
    ELSE [res |-> r, validated |-> FALSE, call |-> TRUE]

\* The handler up to the await: 400, 500, or the call is made.
SearchStart(query, key, r) ==
    IF ~Truthy(query)
    THEN [res |-> SendError(r, 400, QueryRequired), validated |-> FALSE, call |-> FALSE]
    ELSE IF ~key
    THEN [res |-> SendError(r, 500, MissingApiKey), validated |-> TRUE, call |-> FALSE]
    ELSE [res |-> r, validated |-> TRUE, call |-> TRUE]

\* The handler from the await on, the call having been rejected with e.
SearchRejected(e, r) ==
    LET n == NetworkErrorCatch(e, r)
    IN IF n.returned THEN n.res ELSE ApiErrorCatch(e, n.res)

\* The handler from the await on, the call having been answered 2xx.  Every
\* exception of the inner try ends in catch (apiError), which throws nothing:
\* the outer catch and its InternalServerError are reached by no path.
SearchResolved(data, query, r) ==
    LET p == ParseCompletion(data, query)
        f == FormatResults(p.products)
    IN IF p.threw THEN ApiErrorCatch(p.err, r)
       ELSE IF f.threw THEN ApiErrorCatch(f.err, r)
       ELSE SendProducts(r, f.out)

----------------------------------------------------------------------------
(* POST /api/chat *)

\* !messages || !Array.isArray(messages) || messages.length === 0
InvalidMessages(messages) == messages \in {"undefined", "string", "object", "empty"}

\* The handler up to the await.  messages.map throws on a null message and
\* context.products.forEach on products that are no array; the catch answers
\* 500.  OPENAI_API_KEY is only read into the Authorization header.
ChatStart(messages, context, key, r) ==
    IF InvalidMessages(messages)
    THEN [res |-> SendError(r, 400, MessagesRequired), validated |-> FALSE, call |-> FALSE]
    ELSE IF messages = "listWithNull" \/ context = "productsNoArray"
    THEN [res |-> SendError(r, 500, FailedToGetReply), validated |-> TRUE, call |-> FALSE]
    ELSE [res |-> r, validated |-> TRUE, call |-> TRUE]

ChatRejected(e, r) == SendError(r, 500, FailedToGetReply)

ChatResolved(data, r) ==
    IF ContentThrows(data) THEN SendError(r, 500, FailedToGetReply) ELSE SendReply(r)

----------------------------------------------------------------------------
(* Inputs *)

Query == Str("wireless earbuds")

\* req.body of POST /api/search, an object (express.json): the query
SearchQueries == {Undefined, Str(""), Query}

\* req.body of POST /api/chat: <<messages, context>>
ChatBodies ==
    {<<m, "undefined">> : m \in {"undefined", "string", "object", "empty", "list", "listWithNull"}}
    \cup {<<"list", c>> : c \in {"given", "productsNoArray"}}

TimeoutExceeded == <<"timeout", "of", "15000ms", "exceeded">>

\* Rejections of axios.post without an upstream response ...
NetworkErrors ==
    {Err("axios", "ECONNREFUSED", <<"connect", "ECONNREFUSED">>, 0, FALSE),
     Err("axios", "ENOTFOUND", <<"getaddrinfo", "ENOTFOUND">>, 0, FALSE),
     Err("axios", "ETIMEDOUT", <<"connect", "ETIMEDOUT">>, 0, FALSE),
     Err("axios", "ETIMEDOUT", <<"read", "ETIMEDOUT">>, 0, FALSE),
     Err("axios", "ESOCKETTIMEDOUT", <<"ESOCKETTIMEDOUT">>, 0, FALSE),
     Err("axios", "ECONNABORTED", <<"Request", "aborted">>, 0, FALSE),
     Err("axios", "ECONNRESET", <<"socket", "hang", "up">>, 0, FALSE),
     Err("axios", "ERR_NETWORK", <<"Network", "Error">>, 0, FALSE),
     Err("axios", "EAI_AGAIN", <<"network", "unreachable">>, 0, FALSE)}

\* ... and with one: a status outside 2xx, its body with a message or without.
StatusErrors ==
    {Err("axios", "ERR_BAD_REQUEST", <<"Request", "failed">>, st, TRUE) :
        st \in {401, 404, 429}}
    \cup {Err("axios", "ERR_BAD_REQUEST", <<"Request", "failed">>, 403, FALSE)}
    \cup {Err("axios", "ERR_BAD_RESPONSE", <<"Request", "failed">>, st, dm) :
        st \in {500, 502}, dm \in BOOLEAN}

UpstreamErrors == NetworkErrors \cup StatusErrors

\* Elements of upstream product lists
Others(present) ==
    IF present
    THEN [NoFields EXCEPT !.image_url = Str("http://img/x.png"), !.review_count = Num(12),
                          !.cons = Str("pricey"), !.price_min = Num(20),
                          !.price_max = Num(30), !.retailers = List(2)]
    ELSE NoFields

Elements ==
    {Obj([Others(o) EXCEPT !.name = nm, !.rating = rt, !.pros = pr]) :
        o \in BOOLEAN,
        nm \in {Undefined, Str("X")},
        rt \in {Undefined, Num(0), Num(4)},
        pr \in {Undefined, Str(""), Str("good")}}
    \cup {NullElem}

ListsUpTo(n) == UNION {[1..k -> Elements] : k \in 0..n}

NotLists == {POther("undefined"), POther("null"), POther("string"), POther("object")}

Keys ==
    {[NoKeys EXCEPT !.name = nm, !.title = ti, !.minPrice = mp] :
        nm \in {Undefined, Str("X")}, ti \in {Undefined, Str("T")},
        mp \in {Undefined, Num(20)}}

Completion(parsed) == Data("content", TRUE, parsed)

\* response.data of the search call: the shapes of a 2xx answer
BodiesUpTo(n) ==
    {Data("noChoices", FALSE, ParsedPrimitive("null")),
     Data("noMessage", FALSE, ParsedPrimitive("null")),
     Data("noContent", FALSE, ParsedPrimitive("null")),
     Data("content", FALSE, ParsedPrimitive("null"))}
    \cup {Completion(ParsedPrimitive(tag)) : tag \in {"null", "number", "string", "array"}}
    \cup {Completion(Parsed("object", p, POther("undefined"), NoKeys)) :
            p \in NotLists \cup {PList(l) : l \in ListsUpTo(n)}}
    \cup {Completion(Parsed("object", POther(tag), PList(l), NoKeys)) :
            tag \in {"undefined", "null"}, l \in ListsUpTo(n)}
    \cup {Completion(Parsed("object", q, p, NoKeys)) :
            q \in {POther("string"), PList(<<>>)}, p \in {POther("object"), PList(<<>>)}}
    \cup {Completion(Parsed("object", POther("undefined"), POther("undefined"), k)) : k \in Keys}

NormaliserBodies == BodiesUpTo(MaxList)

\* The answers the handlers are run on: the shapes above with a product list
\* of the scenario of the specification, of an element without a name, of null.
ScenarioElement == Obj([NoFields EXCEPT !.name = Str("X"), !.rating = Num(4)])

HandlerBodies ==
    BodiesUpTo(0)
    \cup {Completion(Parsed("object", PList(<<e>>), POther("undefined"), NoKeys)) :
            e \in {ScenarioElement, Obj([NoFields EXCEPT !.rating = Num(4)]), NullElem}}
    \cup {Completion(Parsed("object", POther("undefined"), PList(<<ScenarioElement>>), NoKeys))}

\* response.data of the chat call
ChatAnswers ==
    {Data("noChoices", FALSE, ParsedPrimitive("null")),
     Data("noContent", FALSE, ParsedPrimitive("null")),
     Data("content", FALSE, ParsedPrimitive("null"))}

----------------------------------------------------------------------------
(* State *)

Idle ==
    [pc |-> "idle", route |-> "none", ip |-> "none", query |-> Undefined,
     messages |-> "undefined", context |-> "undefined", hist |-> <<>>, ordinal |-> 0]

NoCall ==
    [calls |-> 0, pending |-> FALSE, timeout |-> NoTimeout, settled |-> "none",
     data |-> NoData, err |-> NoErr]

NoWindow == [index |-> 0, start |-> 0, total |-> 0, admitted |-> 0]

\* The window a request of client c at time t falls in: the one open, or a
\* new one when none is open or the duration has passed.
WindowAt(w, t) ==
    IF w.total = 0 \/ t >= w.start + DurationTicks
    THEN [index |-> w.index + 1, start |-> t, total |-> 0, admitted |-> 0]
    ELSE w

Init ==
    /\ DEEPSEEK_API_KEY \in BOOLEAN
    /\ OPENAI_API_KEY \in BOOLEAN
    /\ now = 0
    /\ storage = [c \in Clients |-> NoRecord]
    /\ req = Idle
    /\ res = NoResponse
    /\ upstream = NoCall
    /\ window = [c \in Clients |-> NoWindow]

----------------------------------------------------------------------------
(* Actions *)

\* A client may send while it is within MaxOverflow of its window's capacity.
MaySend(c) == WindowAt(window[c], now).total < points + MaxOverflow

Arrive(r) ==
    /\ req.pc \in {"idle", "done"}
    /\ MaySend(r.ip)
    /\ req' = r
    /\ res' = NoResponse
    /\ upstream' = NoCall
    /\ UNCHANGED <<DEEPSEEK_API_KEY, OPENAI_API_KEY, now, storage, window>>

SearchRequest(c, q) ==
    [Idle EXCEPT !.pc = "received", !.route = "search", !.ip = c, !.query = q,
                 !.hist = <<"received">>]

ChatRequest(c, b) ==
    [Idle EXCEPT !.pc = "received", !.route = "chat", !.ip = c, !.messages = b[1],
                 !.context = b[2], !.hist = <<"received">>]

\* A request reaches one of the two routes.
Receive ==
    \E c \in Clients :
        \/ \E q \in SearchQueries : Arrive(SearchRequest(c, q))
        \/ \E b \in ChatBodies : Arrive(ChatRequest(c, b))

\* A request with a payload the handler turns down.
ReceiveInvalid ==
    \E c \in Clients :
        \/ Arrive(SearchRequest(c, Undefined))
        \/ Arrive(ChatRequest(c, <<"empty", "undefined">>))

\* app.post(route, rateLimiterMiddleware, ...)
RateLimit ==
    /\ req.pc = "received"
    /\ LET m == rateLimiterMiddleware(storage, req.ip, now, res)
           w == WindowAt(window[req.ip], now)
       IN /\ storage' = m.storage
          /\ res' = m.res
          /\ window' = [window EXCEPT ![req.ip] =
                            [w EXCEPT !.total = @ + 1,
                                      !.admitted = IF m.next THEN @ + 1 ELSE @]]
          /\ req' = [req EXCEPT !.pc = IF m.next THEN "admitted" ELSE "done",
                                !.ordinal = w.total + 1,
                                !.hist = Append(@, IF m.next THEN "rate-checked" ELSE "errored")]
    /\ UNCHANGED <<DEEPSEEK_API_KEY, OPENAI_API_KEY, now, upstream>>

\* The stages a handler passes up to its await or its early return.
Started(s) ==
    (IF s.validated THEN <<"validated">> ELSE <<>>)
        \o (IF s.call THEN <<"upstream-called">> ELSE <<"errored">>)

\* axios.post(url, body, {timeout})
Call(u, timeout) == [u EXCEPT !.calls = @ + 1, !.pending = TRUE, !.timeout = timeout]

Start(s, timeout) ==
    /\ res' = s.res
    /\ req' = [req EXCEPT !.pc = IF s.call THEN "awaiting" ELSE "done",
                          !.hist = @ \o Started(s)]
    /\ upstream' = IF s.call THEN Call(upstream, timeout) ELSE upstream
    /\ UNCHANGED <<DEEPSEEK_API_KEY, OPENAI_API_KEY, now, storage, window>>

SearchHandler ==
    /\ req.pc = "admitted"
    /\ req.route = "search"
    /\ Start(SearchStart(req.query, DEEPSEEK_API_KEY, res), SearchTimeoutMs)

ChatHandler ==
    /\ req.pc = "admitted"
    /\ req.route = "chat"
    /\ Start(ChatStart(req.messages, req.context, OPENAI_API_KEY, res), NoTimeout)

Settle(settled, data, err) ==
    /\ req.pc = "awaiting"
    /\ upstream.pending
    /\ upstream' = [upstream EXCEPT !.pending = FALSE, !.settled = settled,
                                    !.data = data, !.err = err]
    /\ UNCHANGED <<DEEPSEEK_API_KEY, OPENAI_API_KEY, now, storage, req, res, window>>

\* The upstream answers 2xx.
UpstreamResolve ==
    \/ /\ req.route = "search"
       /\ \E d \in HandlerBodies : Settle("resolved", d, NoErr)
    \/ /\ req.route = "chat"
       /\ \E d \in ChatAnswers : Settle("resolved", d, NoErr)

\* The call fails.
UpstreamReject == \E e \in UpstreamErrors : Settle("rejected", NoData, e)

\* The timeout of the call elapses: axios aborts it with ECONNABORTED.
UpstreamTimeout ==
    /\ upstream.timeout > 0
    /\ Settle("rejected", NoData, Err("axios", "ECONNABORTED", TimeoutExceeded, 0, FALSE))

Finished(r) == IF r.status = 200 THEN <<"normalized", "responded">> ELSE <<"errored">>

Resume(r) ==
    /\ res' = r
    /\ req' = [req EXCEPT !.pc = "done", !.hist = @ \o Finished(r)]
    /\ UNCHANGED <<DEEPSEEK_API_KEY, OPENAI_API_KEY, now, storage, upstream, window>>

SearchResume ==
    /\ req.pc = "awaiting"
    /\ req.route = "search"
    /\ upstream.settled # "none"
    /\ Resume(IF upstream.settled = "resolved"
              THEN SearchResolved(upstream.data, req.query, res)
              ELSE SearchRejected(upstream.err, res))

ChatResume ==
    /\ req.pc = "awaiting"
    /\ req.route = "chat"
    /\ upstream.settled # "none"
    /\ Resume(IF upstream.settled = "resolved"
              THEN ChatResolved(upstream.data, res)
              ELSE ChatRejected(upstream.err, res))

\* Time passes: records whose duration is over are deleted.
Tick ==
    /\ now < MaxTime
    /\ now' = now + 1
    /\ storage' = Expire(storage, now + 1)
    /\ window' = [c \in Clients |->
                    IF window[c].total > 0 /\ now + 1 >= window[c].start + DurationTicks
                    THEN [NoWindow EXCEPT !.index = window[c].index]
                    ELSE window[c]]
    /\ UNCHANGED <<DEEPSEEK_API_KEY, OPENAI_API_KEY, req, res, upstream>>

----------------------------------------------------------------------------
(* Specifications *)

\* The two routes within one rate window.
Next ==
    \/ Receive
    \/ RateLimit
    \/ SearchHandler
    \/ ChatHandler
    \/ UpstreamResolve
    \/ UpstreamReject
    \/ UpstreamTimeout
    \/ SearchResume
    \/ ChatResume

Spec == Init /\ [][Next]_vars

\* The rate limiter over time, under requests the handlers answer at once.
NextLimiter ==
    \/ ReceiveInvalid
    \/ RateLimit
    \/ SearchHandler
    \/ ChatHandler
    \/ Tick

SpecLimiter == Init /\ [][NextLimiter]_vars

\* The normaliser on the answers of the search call: a search request that
\* was admitted, is valid, and whose call has just been answered.
InitNormalise ==
    /\ DEEPSEEK_API_KEY = TRUE
    /\ OPENAI_API_KEY \in BOOLEAN
    /\ now = 0
    /\ \E c \in Clients :
        /\ storage = Consume([k \in Clients |-> NoRecord], c, 0).storage
        /\ window = [k \in Clients |->
                        IF k = c THEN [index |-> 1, start |-> 0, total |-> 1, admitted |-> 1]
                        ELSE NoWindow]
        /\ req = [SearchRequest(c, Query) EXCEPT
                    !.pc = "awaiting", !.ordinal = 1,
                    !.hist = <<"received", "rate-checked", "validated", "upstream-called">>]
    /\ res = NoResponse
    /\ \E d \in NormaliserBodies :
        upstream = [Call(NoCall, SearchTimeoutMs) EXCEPT
                        !.pending = FALSE, !.settled = "resolved", !.data = d]

NextNormalise == SearchResume

SpecNormalise == InitNormalise /\ [][NextNormalise]_vars

----------------------------------------------------------------------------
(* Properties *)

Has(h, stage) == \E i \in 1..Len(h) : h[i] = stage

Before(h, a, b) == \A j \in 1..Len(h) : h[j] = b => \E i \in 1..(j - 1) : h[i] = a

\* The middleware has run on the request.
RateChecked == req.ordinal > 0

\* next() was called by the middleware.
Admitted == Has(req.hist, "rate-checked")

\* The handler has run up to its await or its return.
Handled == Admitted /\ req.pc \in {"awaiting", "done"}

Answered == req.pc = "done"

SearchAnswered == Answered /\ Admitted /\ req.route = "search"

ErrorBody == res.body = "error" /\ res.error /\ res.message # <<>>

\* C1: per client and per window of the limiter, the requests numbered 1 to
\* points are admitted and no more than points are; the request numbered
\* points + 1, and any later one of the window, is answered 429 with
\* {error: true, message}; a request after the window has elapsed is number 1
\* of a new window, so admitted again.  The windows are counted per client,
\* apart from the limiter's records.
RateLimitPerWindow ==
    /\ \A c \in Clients : window[c].admitted <= points
    /\ RateChecked =>
        /\ req.ordinal <= points => Admitted /\ res.message # TooManyRequests
        /\ req.ordinal > points =>
            /\ res.sent = 1 /\ res.status = 429 /\ ErrorBody
            /\ req.pc = "done" /\ ~Admitted

\* C1, witness: a client's request number points + 1 is turned down in its
\* second window, while the other client is part-way through a window of its
\* own.
RateLimitWitness ==
    /\ req.ordinal = points + 1
    /\ res.status = 429
    /\ window[req.ip].index >= 2
    /\ \E c \in Clients \ {req.ip} : window[c].admitted \in 1..(points - 1)

InvalidPayload ==
    \/ req.route = "search" /\ req.query \in {Undefined, Str("")}
    \/ req.route = "chat" /\ req.messages \in {"undefined", "string", "object", "empty"}

\* C2: an admitted search request whose query is missing or the empty string,
\* and an admitted chat request whose messages are missing, no array or
\* empty, is answered 400, and no upstream call is made for it.
InvalidPayloadRejected ==
    Handled /\ InvalidPayload =>
        /\ Answered /\ res.sent = 1 /\ res.status = 400 /\ ErrorBody
        /\ upstream.calls = 0

\* C2, witness: an admitted search for the empty string, the key configured,
\* answered 400.
InvalidPayloadWitness ==
    /\ Answered /\ Admitted
    /\ req.route = "search" /\ req.query = Str("")
    /\ res.status = 400
    /\ upstream.calls = 0
    /\ DEEPSEEK_API_KEY

CredentialMissing ==
    \/ req.route = "search" /\ ~DEEPSEEK_API_KEY
    \/ req.route = "chat" /\ ~OPENAI_API_KEY

\* C3: with the credential of the route's provider not configured, an
\* admitted valid request is answered 500 and no upstream call is made.
MissingCredentialShortCircuits ==
    Handled /\ ~InvalidPayload /\ CredentialMissing =>
        /\ upstream.calls = 0
        /\ Answered /\ res.status = 500 /\ ErrorBody

NotAList(p) == p.t \notin {"array", "undefined"}

Malformed(d) ==
    \/ d.shape \in {"noChoices", "noMessage", "noContent"}
    \/ ~d.valid
    \/ d.parsed.t \in {"null", "number", "string", "array"}
    \/ NotAList(d.parsed.products)
    \/ NotAList(d.parsed.recommendations)

\* C4: a 2xx answer of the search call with a malformed completion is
\* answered 200 with exactly one product, named after the query.
MalformedGivesFallback ==
    SearchAnswered /\ upstream.settled = "resolved" /\ Malformed(upstream.data) =>
        /\ res.status = 200
        /\ Len(res.products) = 1
        /\ res.products[1].productName = req.query

TimeoutCodes == {"ETIMEDOUT", "ESOCKETTIMEDOUT", "ECONNABORTED"}

ConnectionFailure(e) ==
    /\ e.code \notin TimeoutCodes
    /\ \/ e.code \in {"ECONNREFUSED", "ENOTFOUND"}
       \/ Includes(e.message, "connect")
       \/ Includes(e.message, "network")

\* C5: a failed search call without an upstream response is answered by its
\* class: 504 for a timeout code whatever the message says, 503 for a
\* connection failure.
FailureClassDecidesStatus ==
    SearchAnswered /\ upstream.settled = "rejected" /\ upstream.err.status = 0 =>
        /\ upstream.err.code \in TimeoutCodes => res.status = 504
        /\ ConnectionFailure(upstream.err) => res.status = 503

Defaults ==
    [name |-> NoInformation, image_url |-> Placeholder, rating |-> Num(0),
     review_count |-> Num(0), pros |-> NoInformation, cons |-> NoInformation,
     price_min |-> Num(0), price_max |-> Num(0), retailers |-> List(0)]

Canonical(out) ==
    [name |-> out.productName, image_url |-> out.productImageUrl,
     rating |-> out.averageRating, review_count |-> out.reviewCount, pros |-> out.pros,
     cons |-> out.cons, price_min |-> out.priceMin, price_max |-> out.priceMax,
     retailers |-> out.retailers]

\* Every field is there; it is the upstream one where there is one and the
\* default where there is none (for the name: any value).
Lossless(in, out) ==
    \A f \in FieldNames :
        /\ Canonical(out)[f] # Undefined
        /\ in.f[f] # Undefined => Canonical(out)[f] = in.f[f]
        /\ in.f[f] = Undefined /\ f # "name" => Canonical(out)[f] = Defaults[f]

UpstreamList(d) ==
    IF d.parsed.products.t = "array" THEN d.parsed.products.l ELSE d.parsed.recommendations.l

HasList(d) ==
    /\ d.shape = "content" /\ d.valid /\ d.parsed.t = "object"
    /\ d.parsed.products.t = "array" \/ d.parsed.recommendations.t = "array"
    /\ \A i \in 1..Len(UpstreamList(d)) : UpstreamList(d)[i].t = "object"

\* C6: an upstream list of objects under products or recommendations comes
\* back with the same length and order, every element with its nine fields:
\* the upstream value where there is one, the default where there is none.
ListMappedLosslessly ==
    SearchAnswered /\ upstream.settled = "resolved" /\ HasList(upstream.data) =>
        /\ res.status = 200
        /\ Len(res.products) = Len(UpstreamList(upstream.data))
        /\ \A i \in 1..Len(res.products) :
            Lossless(UpstreamList(upstream.data)[i], res.products[i])

\* An exception of the gateway's own code, not an error of the upstream call.
InternalFault ==
    \/ /\ req.route = "search" /\ upstream.settled = "resolved"
       /\ LET p == ParseCompletion(upstream.data, req.query)
          IN p.threw \/ FormatResults(p.products).threw
    \/ /\ req.route = "chat"
       /\ \/ req.messages = "listWithNull"
          \/ req.context = "productsNoArray"
          \/ upstream.settled = "resolved" /\ ContentThrows(upstream.data)

GenericMessages == {InternalServerError, FailedToGetReply}

\* C7: every failure is answered {error: true, message}; a fault of the
\* gateway's own code is answered 500 with a fixed generic message, not the
\* text of the exception.
FailuresAreGeneric ==
    Answered /\ Admitted =>
        /\ res.status # 200 => ErrorBody
        /\ InternalFault => res.status = 500 /\ res.message \in GenericMessages

\* C8: a request is never answered twice, a request whose handling has ended
\* has been answered once, and a request whose handling has not ended has a
\* step to take unless it waits for the upstream call to settle.
ExactlyOneResponse ==
    /\ res.sent <= 1
    /\ Answered => res.sent = 1
    /\ req.pc = "received" => ENABLED RateLimit
    /\ req.pc = "admitted" => ENABLED (SearchHandler \/ ChatHandler)
    /\ req.pc = "awaiting" /\ upstream.settled # "none" => ENABLED (SearchResume \/ ChatResume)
    /\ req.pc = "awaiting" /\ upstream.settled = "none" => upstream.pending

\* C8, witness: the path through both nested handlers; the network catch
\* throws the timeout on and the outer one answers 504.
ExactlyOneResponseWitness ==
    /\ Answered
    /\ req.route = "search"
    /\ upstream.settled = "rejected"
    /\ upstream.err.code = "ECONNABORTED"
    /\ res.sent = 1
    /\ res.status = 504

\* C9: a pending upstream call carries a timeout, and a request makes no
\* second call.
EveryCallHasTimeout ==
    /\ upstream.calls <= 1
    /\ upstream.pending => upstream.timeout > 0

StatedRank ==
    [received |-> 1, validated |-> 2, ratechecked |-> 3, upstreamcalled |-> 4,
     normalized |-> 5, responded |-> 6, errored |-> 6]

CodeRank ==
    [received |-> 1, ratechecked |-> 2, validated |-> 3, upstreamcalled |-> 4,
     normalized |-> 5, responded |-> 6, errored |-> 6]

Key(stage) ==
    CASE stage = "rate-checked" -> "ratechecked"
      [] stage = "upstream-called" -> "upstreamcalled"
      [] OTHER -> stage

Ordered(h, rank) == \A i \in 1..(Len(h) - 1) : rank[Key(h[i])] < rank[Key(h[i + 1])]

\* C10 as stated: the stages come in the order received, validated,
\* rate-checked, upstream-called, normalized, responded; validation is before
\* the rate check.
StagesAsStated ==
    /\ Ordered(req.hist, StatedRank)
    /\ Before(req.hist, "validated", "rate-checked")

\* C10, amended: the order is received, rate-checked, validated,
\* upstream-called, normalized, responded; the rate check is before the
\* validation and the validation before any upstream call; a request ends
\* responded or errored, and a normalized request is responded.
StagesInOrder ==
    /\ Ordered(req.hist, CodeRank)
    /\ Before(req.hist, "rate-checked", "validated")
    /\ Before(req.hist, "validated", "upstream-called")
    /\ upstream.calls > 0 => Has(req.hist, "validated") /\ Has(req.hist, "upstream-called")
    /\ \A i \in 1..Len(req.hist) :
        req.hist[i] = "normalized" => i < Len(req.hist) /\ req.hist[i + 1] = "responded"
    /\ Answered <=> (Has(req.hist, "responded") \/ Has(req.hist, "errored"))

\* C10, witness: a request that went through every stage.
StagesWitness ==
    req.hist = <<"received", "rate-checked", "validated", "upstream-called",
                 "normalized", "responded">>

\* C10: the error response follows each of received, rate-checked, validated
\* and upstream-called in some reachable state.
ErroredFrom(stage) ==
    /\ Len(req.hist) >= 2
    /\ req.hist[Len(req.hist)] = "errored"
    /\ req.hist[Len(req.hist) - 1] = stage

ErroredFromReceived == ErroredFrom("received")
ErroredFromRateChecked == ErroredFrom("rate-checked")
ErroredFromValidated == ErroredFrom("validated")
ErroredFromUpstreamCalled == ErroredFrom("upstream-called")

====
